---------------------------- MODULE Spec2Model ----------------------------
(***************************************************************************)
(* The Stryke interpreter of StrykeCore.py as a state machine.             *)
(*                                                                         *)
(* The Python recursion execute_line -> safe_eval -> call_user_func ->     *)
(* execute_line is unfolded into an explicit stack of loop frames: the     *)
(* run_file loop, the repl loop, the body loop of call_user_func and the   *)
(* block loop of the `if` statement.  A statement is one step; a pause of  *)
(* the debugger, each debugger command, the return of a call and each      *)
(* frame an exception leaves are steps of their own.                       *)
(*                                                                         *)
(* Line 238 of StrykeCore.py holds a `continue` outside any loop.  The     *)
(* statement cannot be reached (the loop of line 237 ends only on an empty *)
(* block, and line 238 then fails on the unbound `res`), so the model      *)
(* follows the statements around it as they are written.                   *)
(***************************************************************************)
EXTENDS Integers, Sequences, FiniteSets, TLC

\* ------------------------------------------------------------------ bounds
\* Statements executed in one run (the loop of line 237 never ends by itself).
MaxSteps == 12
\* Host recursion limit, scaled down: a call at this depth fails.
MaxDepth == 3
\* Breakpoint add/remove commands entered over one run.
MaxDbgCmds == 2
\* Length of the line sequences handed to parse_block on its own.
MaxLen == 4

\* ------------------------------------------------------------------ values
\* Values are integers; True and False are 1 and 0 as in Python.
NoneVal == -1
\* A name no scope binds (the key is absent from env["vars"]).
Undef == -2
\* The dictionaries global_env starts with.
DictVal == -3
\* A built-in function object of safe_functions.
FnVal == -4

global_env == {"__modules__", "__packages__"}

safe_functions ==
  {"int", "float", "str", "len", "abs", "max", "min", "round",
   "readfile", "writefile", "input"}

VarNames ==
  {"x", "y", "r", "i", "a", "b", "c", "n", "t", "ok", "abs", "__modules__",
   "class", "True", "7"}

FuncNames == {"f", "g"}

EmptyVars == [v \in VarNames |-> Undef]

NoFunc == [defd |-> FALSE, params |-> << >>, body |-> << >>]

Path == "main.stryke"

\* Tag of a breakpoint given as a bare line number.
Bare == "<bare>"

\* ------------------------------------------------------------- expressions
Const(n) == [t |-> "const", v |-> n, id |-> "", args |-> << >>]
Name(x) == [t |-> "name", v |-> 0, id |-> x, args |-> << >>]
Call(f, as) == [t |-> "call", v |-> 0, id |-> f, args |-> as]
Add(l, r) == [t |-> "add", v |-> 0, id |-> "", args |-> <<l, r>>]
Lt(l, r) == [t |-> "lt", v |-> 0, id |-> "", args |-> <<l, r>>]
Or(l, r) == [t |-> "or", v |-> 0, id |-> "", args |-> <<l, r>>]
\* The source text of an expression that is one word, not yet parsed.
Text(w) == [t |-> "text", v |-> 0, id |-> w, args |-> << >>]

Ok(n) == [err |-> "none", v |-> n]
Err(e) == [err |-> e, v |-> 0]

IsNum(n) == n >= 0

Truthy(n) == n > 0 \/ n = FnVal

FirstErr(rs) ==
  IF \E k \in DOMAIN rs : rs[k].err # "none"
  THEN rs[CHOOSE k \in DOMAIN rs : rs[k].err # "none"
                    /\ \A j \in DOMAIN rs : j < k => rs[j].err = "none"].err
  ELSE "none"

\* Mutant: the global registry and the built-in table are looked up before
\* the local variables.
resolve_name_locals_last(idn, vs) ==
  IF idn \in global_env THEN Ok(DictVal)
  ELSE IF idn \in safe_functions THEN Ok(FnVal)
  ELSE IF idn \in DOMAIN vs /\ vs[idn] # Undef THEN Ok(vs[idn])
  ELSE Err("NameError")

\* ast.Name (lines 104-109): env["vars"], then global_env, then safe_functions.
resolve_name(idn, vs) ==
  IF idn \in DOMAIN vs /\ vs[idn] # Undef THEN Ok(vs[idn])
  ELSE IF idn \in global_env THEN Ok(DictVal)
  ELSE IF idn \in safe_functions THEN Ok(FnVal)
  ELSE Err("NameError")

\* eval_ast on an expression that calls no user function: vs is env["vars"],
\* fs the names defined in env["funcs"].
RECURSIVE eval_ast(_, _, _)
eval_ast(node, vs, fs) ==
  CASE node.t = "const" -> Ok(node.v)
    [] node.t = "name" -> resolve_name(node.id, vs)
    [] node.t \in {"add", "lt"} ->
         LET l == eval_ast(node.args[1], vs, fs)
             r == eval_ast(node.args[2], vs, fs)
         IN IF l.err # "none" THEN l
            ELSE IF r.err # "none" THEN r
            ELSE IF ~(IsNum(l.v) /\ IsNum(r.v)) THEN Err("TypeError")
            ELSE IF node.t = "add" THEN Ok(l.v + r.v)
            ELSE Ok(IF l.v < r.v THEN 1 ELSE 0)
    [] node.t = "or" ->
         LET values == [k \in DOMAIN node.args |-> eval_ast(node.args[k], vs, fs)]
         IN IF FirstErr(values) # "none" THEN Err(FirstErr(values))
            ELSE Ok(IF \E k \in DOMAIN values : Truthy(values[k].v) THEN 1 ELSE 0)
    [] node.t = "call" ->
         LET args == [k \in DOMAIN node.args |-> eval_ast(node.args[k], vs, fs)]
         IN IF FirstErr(args) # "none" THEN Err(FirstErr(args))
            ELSE IF node.id \in fs THEN Err("NestedUserCall")
            ELSE IF node.id = "abs" THEN
                   IF Len(args) = 1 /\ IsNum(args[1].v) THEN Ok(args[1].v)
                   ELSE Err("TypeError")
            ELSE IF node.id \in safe_functions THEN Err("TypeError")
            ELSE Err("NameError")
    [] OTHER -> Err("ValueError")

\* Words ast.parse refuses in mode "eval" (Python keywords).
Keywords == {"class", "if", "def", "return", "while", "else"}

\* A string value (the raw text safe_eval falls back to).
StrVal == -5

\* ast.parse(word, mode="eval") on a word it accepts: True, False and None
\* and digit strings are constants, any other word is a Name.
parse_word(w) ==
  CASE w = "True" -> Const(1)
    [] w = "False" -> Const(0)
    [] w = "None" -> Const(NoneVal)
    [] w = "7" -> Const(7)
    [] OTHER -> Name(w)

\* safe_eval: an expression given as an AST has parsed; a one-word text is
\* parsed first, and on a parse failure the word is looked up in env["vars"]
\* and else returned as it is (lines 126-131).
safe_eval(e, vs, fs) ==
  IF e.t = "text"
  THEN IF e.id \in Keywords
       THEN IF e.id \in DOMAIN vs /\ vs[e.id] # Undef THEN Ok(vs[e.id]) ELSE Ok(StrVal)
       ELSE eval_ast(parse_word(e.id), vs, fs)
  ELSE eval_ast(e, vs, fs)

\* ------------------------------------------------------------------- lines
NoExpr == Const(0)
StrySet(x, e) == [k |-> "set", name |-> x, params |-> << >>, e |-> e]
StryPrint(e) == [k |-> "print", name |-> "", params |-> << >>, e |-> e]
Def(f, ps) == [k |-> "def", name |-> f, params |-> ps, e |-> NoExpr]
Ret(e) == [k |-> "return", name |-> "", params |-> << >>, e |-> e]
If(e) == [k |-> "if", name |-> "", params |-> << >>, e |-> e]
While(e) == [k |-> "while", name |-> "", params |-> << >>, e |-> e]
Else == [k |-> "else", name |-> "", params |-> << >>, e |-> NoExpr]
End == [k |-> "end", name |-> "", params |-> << >>, e |-> NoExpr]
Blank == [k |-> "blank", name |-> "", params |-> << >>, e |-> NoExpr]

\* ------------------------------------------------------------- parse_block
PbFail == [ok |-> FALSE, block |-> << >>, end_idx |-> 0]

RECURSIVE parse_block_scan(_, _, _)
parse_block_scan(lines, i, block) ==
  IF i < Len(lines)
  THEN IF lines[i + 1].k = "end"
       THEN [ok |-> TRUE, block |-> block, end_idx |-> i]
       ELSE parse_block_scan(lines, i + 1, Append(block, lines[i + 1]))
  ELSE PbFail

\* parse_block(lines, start_idx), indices counted from 0 as in the source;
\* ok = FALSE stands for SyntaxError("Missing 'end'").
parse_block(lines, start_idx) == parse_block_scan(lines, start_idx, << >>)

\* ---------------------------------------------------------------- programs
\* Files the runs are drawn from, one statement per line.
ProgScope ==
  << StrySet("x", Const(1)),
     Def("f", <<"a">>),
     StrySet("x", Const(99)),
     StrySet("y", Name("a")),
     Ret(Name("x")),
     End,
     StrySet("r", Call("f", <<Const(5)>>)),
     StryPrint(Name("x")) >>

ProgNoReturn ==
  << StrySet("x", Const(1)),
     Def("g", << >>),
     StrySet("x", Const(7)),
     End,
     StrySet("r", Call("g", << >>)),
     StryPrint(Name("x")) >>

ProgFail ==
  << StrySet("x", Const(1)),
     Def("f", << >>),
     StrySet("x", Const(2)),
     StryPrint(Name("undefined_var")),
     End,
     StrySet("r", Call("f", << >>)),
     StrySet("ok", Const(1)) >>

ProgNested ==
  << Def("g", <<"n">>),
     StrySet("x", Const(5)),
     Ret(Add(Name("n"), Const(1))),
     End,
     Def("f", << >>),
     StrySet("x", Const(3)),
     StrySet("t", Call("g", <<Name("x")>>)),
     Ret(Add(Name("t"), Name("x"))),
     End,
     StrySet("r", Call("f", << >>)) >>

ProgRecursive ==
  << StrySet("n", Const(0)),
     Def("f", <<"n">>),
     StrySet("x", Name("n")),
     Ret(Call("f", <<Add(Name("n"), Const(1))>>)),
     End,
     StrySet("r", Call("f", <<Const(1)>>)) >>

ProgReturnInIf ==
  << Def("f", << >>),
     If(Const(1)),
     Ret(Const(5)),
     End,
     StrySet("y", Const(9)),
     End,
     StrySet("r", Call("f", << >>)) >>

ProgWhile ==
  << StrySet("i", Const(0)),
     While(Lt(Name("i"), Const(2))),
     StrySet("i", Add(Name("i"), Const(1))),
     End,
     StryPrint(Name("i")) >>

ProgWhileFalse ==
  << StrySet("i", Const(5)),
     While(Lt(Name("i"), Const(2))),
     StrySet("i", Add(Name("i"), Const(1))),
     End,
     StryPrint(Name("i")) >>

ProgReturnInWhile ==
  << Def("f", << >>),
     StrySet("i", Const(0)),
     While(Lt(Name("i"), Const(3))),
     StrySet("i", Add(Name("i"), Const(1))),
     Ret(Name("i")),
     End,
     End,
     StrySet("r", Call("f", << >>)),
     StryPrint(Name("r")) >>

ProgIfElseFalse ==
  << StrySet("c", Const(0)),
     If(Name("c")),
     StrySet("a", Const(1)),
     Else,
     StrySet("b", Const(2)),
     End,
     StrySet("ok", Const(1)) >>

ProgIfElseTrue ==
  << StrySet("c", Const(1)),
     If(Name("c")),
     StrySet("a", Const(1)),
     Else,
     StrySet("b", Const(2)),
     End,
     StrySet("ok", Const(1)) >>

ProgNameError ==
  << StryPrint(Name("undefined_var")),
     Blank,
     StrySet("ok", Const(1)) >>

ProgDebug ==
  << Def("f", << >>),
     StrySet("a", Const(1)),
     End,
     StrySet("r", Call("f", << >>)),
     StryPrint(Name("r")) >>

ProgArityFew ==
  << StrySet("x", Const(1)),
     Def("f", <<"a">>),
     StrySet("x", Const(2)),
     Ret(Name("a")),
     End,
     StrySet("r", Call("f", << >>)),
     StrySet("ok", Const(1)) >>

ProgArityMany ==
  << StrySet("x", Const(1)),
     Def("f", <<"a">>),
     StrySet("x", Const(2)),
     Ret(Name("a")),
     End,
     StrySet("r", Call("f", <<Const(1), Const(2)>>)),
     StrySet("ok", Const(1)) >>

ProgTopReturn ==
  << StrySet("a", Const(1)),
     Ret(Const(3)),
     StrySet("ok", Const(1)) >>

ProgOr ==
  << StrySet("a", Or(Const(0), Const(0))),
     StrySet("b", Or(Const(0), Const(1))),
     StrySet("c", Or(Const(1), Const(0))),
     StrySet("r", Or(Const(1), Name("undefined_var"))) >>

\* Names and values of the assignment round trip.
RtNames == {"x", "abs", "__modules__", "class", "True", "7"}

RtValues == {0, 5, NoneVal}

\* Words the expression grammar reads as constants, not as identifiers.
LiteralWords == {"True", "False", "None", "7"}

ProgRoundTrip(w, n) ==
  << StrySet(w, Const(n)),
     StrySet("r", Text(w)) >>

ProgIfTrue ==
  << StrySet("c", Const(1)),
     If(Name("c")),
     StrySet("a", Const(1)),
     StrySet("b", Const(2)),
     End,
     StrySet("ok", Const(1)) >>

Programs ==
  { ProgRoundTrip(w, n) : w \in RtNames, n \in RtValues } \cup
  { ProgIfTrue, ProgOr, ProgTopReturn, ProgArityFew, ProgArityMany, ProgScope, ProgNoReturn, ProgFail, ProgNested, ProgRecursive,
    ProgReturnInIf, ProgWhile, ProgWhileFalse, ProgReturnInWhile,
    ProgIfElseFalse, ProgIfElseTrue, ProgNameError, ProgDebug }

\* ------------------------------------------------------------------- state
VARIABLES
  prog,             \* the lines of the file run, or the lines typed at the REPL
  mode,             \* "file" (run_file) or "repl"
  stack,            \* the loops in progress, innermost last
  vars,             \* env["vars"]
  funcs,            \* env["funcs"]
  call_depth,       \* _call_depth
  breakpoints,      \* _breakpoints
  single_step,      \* _single_step
  step_over_depth,  \* _step_over_depth
  phase,            \* where the innermost loop stands
  retval,           \* the value a finished call hands to its statement
  exc,              \* the exception being propagated, or "none"
  status,           \* "running", "done", "returned" or "crashed"
  out,              \* the values printed
  trace,            \* history: the statements execute_line has started
  lastcmd,          \* history: the last resuming debugger command
  steps,            \* history: number of statements started
  dbgcmds,          \* history: number of commands entered that did not resume
  diags,            \* history: the exceptions reported as tracebacks
  bplog,            \* history: the breakpoint commands and their effect
  watch_expressions, \* _watch_expressions, in registration order
  shown,            \* history: the watch lines printed at the last pause
  pb_lines,         \* parse_block on its own: the lines
  pb_start,         \* parse_block on its own: start_idx
  pb_res            \* parse_block on its own: the result, once computed

vars_all ==
  << prog, mode, stack, vars, funcs, call_depth, breakpoints, single_step,
     step_over_depth, phase, retval, exc, status, out, trace, lastcmd, steps,
     dbgcmds, diags, bplog, watch_expressions, shown, pb_lines, pb_start,
     pb_res >>

pb_vars == << pb_lines, pb_start, pb_res >>

dbg_vars ==
  << breakpoints, single_step, step_over_depth, lastcmd, dbgcmds, bplog,
     watch_expressions, shown >>

\* _step_over_depth = None
NoDepth == -1

Frame(kind, lines, src, fname, saved, depth) ==
  [ kind |-> kind, lines |-> lines, i |-> 0, src |-> src, fname |-> fname,
    saved |-> saved, g_vars |-> saved, g_depth |-> depth ]

Top == stack[Len(stack)]

Pop == SubSeq(stack, 1, Len(stack) - 1)

SetTop(f) == [stack EXCEPT ![Len(stack)] = f]

HasLine == Top.i < Len(Top.lines)

CurLine == Top.lines[Top.i + 1]

\* lineno=(idx+1) if idx is not None else 0
LineNo == IF Top.kind = "repl" THEN 0 ELSE Top.i + 1

Defined == {f \in FuncNames : funcs[f].defd}

IsUserCall(e) == e.t = "call" /\ e.id \in Defined

BareBp(n) == [src |-> Bare, line |-> n]

SrcBp(s, n) == [src |-> s, line |-> n]

check_debug_pause(source_name, lineno) ==
  \/ single_step
  \/ SrcBp(source_name, lineno) \in breakpoints
  \/ BareBp(lineno) \in breakpoints

\* Breakpoints a session registers or removes.
BpLines == {1, 4}

BpUniverse == {BareBp(n) : n \in BpLines} \cup {SrcBp(Path, n) : n \in BpLines}

InitBreakpoints == {{}} \cup {{b} : b \in BpUniverse}

\* ----------------------------------------------------------- initial state
PbUnset == [done |-> FALSE, ok |-> FALSE, block |-> << >>, end_idx |-> 0]

NoFuncs == [f \in FuncNames |-> NoFunc]

\* run_file(path) or repl(), entered with the module's globals as set at
\* import and the breakpoints the session has registered.
Init ==
  /\ prog \in Programs
  /\ mode \in {"file", "repl"}
  /\ stack = << Frame(mode, prog, IF mode = "file" THEN Path ELSE "<stdin>",
                      "", EmptyVars, 0) >>
  /\ vars = EmptyVars
  /\ funcs = NoFuncs
  /\ call_depth = 0
  /\ breakpoints \in InitBreakpoints
  /\ single_step = FALSE
  /\ step_over_depth = NoDepth
  /\ phase = "fetch"
  /\ retval = NoneVal
  /\ exc = "none"
  /\ status = "running"
  /\ out = << >>
  /\ trace = << >>
  /\ lastcmd = "none"
  /\ steps = 0
  /\ dbgcmds = 0
  /\ diags = << >>
  /\ bplog = << >>
  /\ watch_expressions = << >>
  /\ shown = << >>
  /\ pb_lines = << >>
  /\ pb_start = 0
  /\ pb_res = PbUnset

\* ------------------------------------------------------- control transfer
\* Mutant: the restoration is written after the loop instead of in a finally
\* clause, so an exception leaves the callee's bindings and depth in place.
call_user_func_exit_no_finally(f, path) ==
  IF path = "raise"
  THEN [vars |-> vars, depth |-> call_depth]
  ELSE [vars |-> f.saved, depth |-> call_depth - 1]

\* The finally clause of call_user_func: env["vars"] and _call_depth once the
\* call is left along path ("normal", "return" or "raise").
call_user_func_exit(f, path) ==
  [vars |-> f.saved, depth |-> call_depth - 1]

\* Mutant: the body loop does not test for ReturnSignal and goes on with the
\* next line.
call_user_func_loop_ignores_return(sig) ==
  IF sig = "jump" THEN "jump" ELSE "next"

\* What the body loop of call_user_func does with the result of a statement:
\* "exit" (return res.value), "jump" (i = res; i += 1) or "next" (i += 1).
call_user_func_loop(sig) ==
  IF sig = "return" THEN "exit" ELSE IF sig = "jump" THEN "jump" ELSE "next"

\* What the loop of run_file does with the result of a statement.
run_file_loop(sig) ==
  IF sig = "jump" THEN "jump" ELSE IF sig = "return" THEN "exit" ELSE "next"

\* The loop that called execute_line takes its result: sig is "none" (None),
\* "jump" (the integer res) or "return" (ReturnSignal(val)); vs is env["vars"]
\* as the statement left it.
Finish(vs, sig, val, res) ==
  /\ exc' = exc
  /\ CASE Top.kind = "file" ->
            /\ vars' = vs
            /\ UNCHANGED << call_depth, retval >>
            /\ IF run_file_loop(sig) = "exit"
               THEN /\ stack' = stack
                    /\ phase' = "done"
                    /\ status' = "returned"
               ELSE /\ stack' = SetTop([Top EXCEPT !.i =
                          IF run_file_loop(sig) = "jump" THEN res + 1 ELSE Top.i + 1])
                    /\ phase' = "fetch"
                    /\ status' = status
       [] Top.kind = "repl" ->
            /\ vars' = vs
            /\ UNCHANGED << call_depth, retval, status >>
            /\ stack' = SetTop([Top EXCEPT !.i = Top.i + 1])
            /\ phase' = "fetch"
       [] Top.kind = "if" ->
            /\ vars' = vs
            /\ UNCHANGED << call_depth, retval, status, stack >>
            /\ phase' = "fetch"
       [] Top.kind = "func" ->
            IF call_user_func_loop(sig) = "exit"
            THEN LET x == call_user_func_exit(Top, "return")
                 IN /\ stack' = Pop
                    /\ vars' = x.vars
                    /\ call_depth' = x.depth
                    /\ retval' = val
                    /\ phase' = "resume"
                    /\ status' = status
            ELSE /\ vars' = vs
                 /\ UNCHANGED << call_depth, retval, status >>
                 /\ stack' = SetTop([Top EXCEPT !.i =
                       IF call_user_func_loop(sig) = "jump" THEN res + 1 ELSE Top.i + 1])
                 /\ phase' = "fetch"

\* The statement raises e: nothing is assigned, the exception starts to
\* propagate.
Raise(e) ==
  /\ exc' = e
  /\ phase' = "unwind"
  /\ UNCHANGED << stack, vars, call_depth, retval, status >>

Running == status = "running" /\ Len(stack) > 0

\* The statement at the cursor is about to be dispatched: the debugger did
\* not pause, or it has resumed.
Starting ==
  /\ Running
  /\ HasLine
  /\ steps < MaxSteps
  /\ \/ phase = "exec"
     \/ phase = "fetch" /\ ~check_debug_pause(Top.src, LineNo)

\* A statement of kind k whose expression can be valued now: either no user
\* function is called at its root, or the call has returned.
Active(k) ==
  /\ Running
  /\ HasLine
  /\ CurLine.k = k
  /\ \/ phase = "resume"
     \/ Starting /\ ~IsUserCall(CurLine.e)

Val ==
  IF phase = "resume" THEN Ok(retval) ELSE safe_eval(CurLine.e, vars, Defined)

Log ==
  IF phase = "resume"
  THEN UNCHANGED << trace, steps >>
  ELSE /\ trace' = Append(trace,
            [ src |-> Top.src, line |-> LineNo, depth |-> call_depth,
              kind |-> Top.kind, idx |-> Top.i, level |-> Len(stack),
              stmt |-> CurLine, paused |-> (phase = "exec") ])
       /\ steps' = steps + 1

fixed_vars == << prog, mode, pb_lines, pb_start, pb_res >>

\* source_name=f"<func {name}>"
FuncSrc(name) == "<func " \o name \o ">"

\* -------------------------------------------------------------- statements
\* while i<len(lines) is false: the loop of the innermost frame ends.
LoopEnd ==
  /\ Running
  /\ phase = "fetch"
  /\ ~HasLine
  /\ IF Top.kind = "func"
     THEN LET x == call_user_func_exit(Top, "normal")
          IN /\ stack' = Pop
             /\ vars' = x.vars
             /\ call_depth' = x.depth
             /\ retval' = NoneVal
             /\ phase' = "resume"
             /\ status' = status
     ELSE /\ phase' = "done"
          /\ status' = "done"
          /\ UNCHANGED << stack, vars, call_depth, retval >>
  /\ UNCHANGED << funcs, exc, out, trace, steps, diags, dbg_vars, fixed_vars >>

\* if not stripped or stripped.startswith("#"): return None
SkipBlank ==
  /\ Running
  /\ phase = "fetch"
  /\ HasLine
  /\ CurLine.k = "blank"
  /\ Finish(vars, "none", 0, 0)
  /\ UNCHANGED << funcs, out, trace, steps, diags, dbg_vars, fixed_vars >>

\* stryset name (expr)
ExecSet ==
  /\ Active("set")
  /\ Log
  /\ IF Val.err # "none"
     THEN Raise(Val.err)
     ELSE Finish([vars EXCEPT ![CurLine.name] = Val.v], "none", 0, 0)
  /\ UNCHANGED << funcs, out, diags, dbg_vars, fixed_vars >>

\* stryprint expr
ExecPrint ==
  /\ Active("print")
  /\ Log
  /\ IF Val.err # "none"
     THEN Raise(Val.err) /\ out' = out
     ELSE Finish(vars, "none", 0, 0) /\ out' = Append(out, Val.v)
  /\ UNCHANGED << funcs, diags, dbg_vars, fixed_vars >>

\* def name(params): the block goes to env["funcs"], the cursor to its end.
ExecDef ==
  /\ Starting
  /\ CurLine.k = "def"
  /\ Log
  /\ IF Top.kind = "repl"
     THEN Raise("TypeError") /\ funcs' = funcs
     ELSE LET pb == parse_block(Top.lines, Top.i + 1)
          IN IF ~pb.ok
             THEN Raise("SyntaxError") /\ funcs' = funcs
             ELSE /\ funcs' = [funcs EXCEPT ![CurLine.name] =
                       [defd |-> TRUE, params |-> CurLine.params, body |-> pb.block]]
                  /\ Finish(vars, "jump", 0, pb.end_idx)
  /\ UNCHANGED << out, diags, dbg_vars, fixed_vars >>

\* return expr
ExecReturn ==
  /\ Active("return")
  /\ Log
  /\ IF Val.err # "none"
     THEN Raise(Val.err)
     ELSE Finish(vars, "return", Val.v, 0)
  /\ UNCHANGED << funcs, out, diags, dbg_vars, fixed_vars >>

\* if (cond): lines 231-241.  On a true condition the loop of line 237 runs
\* block[i] without ever moving i; on an empty block line 238 reads the
\* unbound res.
ExecIf ==
  /\ Active("if")
  /\ Log
  /\ IF Val.err # "none"
     THEN Raise(Val.err)
     ELSE IF Top.kind = "repl"
     THEN Raise("TypeError")
     ELSE LET pb == parse_block(Top.lines, Top.i + 1)
          IN IF ~pb.ok
             THEN Raise("SyntaxError")
             ELSE IF Truthy(Val.v)
             THEN IF pb.block = << >>
                  THEN Raise("UnboundLocalError")
                  ELSE /\ stack' = Append(stack,
                            Frame("if", pb.block, "<stdin>", "", vars, call_depth))
                       /\ phase' = "fetch"
                       /\ UNCHANGED << vars, call_depth, retval, status, exc >>
             ELSE Finish(vars, "jump", 0, pb.end_idx)
  /\ UNCHANGED << funcs, out, diags, dbg_vars, fixed_vars >>

\* A line no pattern matches (while (...):, else:, end, anything else).
ExecNoop ==
  /\ Starting
  /\ CurLine.k \in {"while", "else", "end", "other"}
  /\ Log
  /\ Finish(vars, "none", 0, 0)
  /\ UNCHANGED << funcs, out, diags, dbg_vars, fixed_vars >>

\* Mutant: only too few arguments are refused; extra ones are dropped as zip
\* drops them.
arity_ok_extra_dropped(args, params) == Len(args) >= Len(params)

\* len(arg_values) != len(params) raises TypeError (lines 141-142).
arity_ok(args, params) == Len(args) = Len(params)

\* A statement whose expression is a call of a user function: eval_ast values
\* the arguments and enters call_user_func.
ExecCall ==
  /\ Starting
  /\ CurLine.k \in {"set", "print", "return", "if"}
  /\ IsUserCall(CurLine.e)
  /\ Log
  /\ LET e == CurLine.e
         args == [k \in DOMAIN e.args |-> eval_ast(e.args[k], vars, Defined)]
         fn == funcs[e.id]
     IN IF FirstErr(args) # "none"
        THEN Raise(FirstErr(args))
        ELSE IF ~arity_ok(args, fn.params)
        THEN Raise("TypeError")
        ELSE IF call_depth >= MaxDepth
        THEN Raise("RecursionError")
        ELSE /\ stack' = Append(stack,
                  Frame("func", fn.body, FuncSrc(e.id), e.id, vars, call_depth))
             /\ vars' = [v \in VarNames |->
                  IF \E k \in DOMAIN fn.params : fn.params[k] = v
                  THEN args[CHOOSE k \in DOMAIN fn.params : fn.params[k] = v].v
                  ELSE vars[v]]
             /\ call_depth' = call_depth + 1
             /\ phase' = "fetch"
             /\ UNCHANGED << retval, status, exc >>
  /\ UNCHANGED << funcs, out, diags, dbg_vars, fixed_vars >>

\* An exception leaves the innermost loop: call_user_func runs its finally
\* clause, the REPL catches (lines 278-281), run_file lets it through.
Unwind ==
  /\ Running
  /\ phase = "unwind"
  /\ CASE Top.kind = "func" ->
            LET x == call_user_func_exit(Top, "raise")
            IN /\ stack' = Pop
               /\ vars' = x.vars
               /\ call_depth' = x.depth
               /\ UNCHANGED << phase, exc, status, diags >>
       [] Top.kind = "if" ->
            /\ stack' = Pop
            /\ UNCHANGED << vars, call_depth, phase, exc, status, diags >>
       [] Top.kind = "file" ->
            /\ status' = "crashed"
            /\ phase' = "done"
            /\ diags' = Append(diags, exc)
            /\ UNCHANGED << stack, vars, call_depth, exc >>
       [] Top.kind = "repl" ->
            /\ stack' = SetTop([Top EXCEPT !.i = Top.i + 1])
            /\ exc' = "none"
            /\ phase' = "fetch"
            /\ diags' = Append(diags, exc)
            /\ UNCHANGED << vars, call_depth, status >>
  /\ UNCHANGED << funcs, retval, out, trace, steps, dbg_vars, fixed_vars >>

\* ---------------------------------------------------------------- debugger
prog_vars ==
  << stack, vars, funcs, call_depth, retval, exc, status, out, trace, steps,
     diags >>

\* check_debug_pause is true: execute_line enters debug_prompt.
\* The expressions a session registers as watches. They call no user
\* function, as the arguments of a call do not.
WatchExprs == {Name("x"), Name("r")}

\* The line printed for one watch (lines 177-178): its value, or <err> when
\* safe_eval raised anything.
show_watch(w, vs, fs) ==
  LET r == safe_eval(w, vs, fs)
  IN IF r.err = "none" THEN [w |-> w, failed |-> FALSE, v |-> r.v]
     ELSE [w |-> w, failed |-> TRUE, v |-> 0]

\* A variant whose loop has no try of its own: the first failing watch ends
\* the display.
show_watches_stop_at_failure(ws, vs, fs) ==
  LET bad == {k \in DOMAIN ws : safe_eval(ws[k], vs, fs).err # "none"}
      n == IF bad = {} THEN Len(ws)
           ELSE CHOOSE k \in bad : \A j \in bad : k <= j
  IN [k \in 1..n |-> show_watch(ws[k], vs, fs)]

\* The watch lines debug_prompt prints before its prompt (lines 174-178):
\* one per registered watch, in list order.
show_watches(ws, vs, fs) ==
  [k \in 1..Len(ws) |-> show_watch(ws[k], vs, fs)]

DebugPause ==
  /\ Running
  /\ phase = "fetch"
  /\ HasLine
  /\ CurLine.k # "blank"
  /\ steps < MaxSteps
  /\ check_debug_pause(Top.src, LineNo)
  /\ shown' = show_watches(watch_expressions, vars, funcs)
  /\ phase' = "paused"
  /\ UNCHANGED << prog_vars, breakpoints, single_step, step_over_depth, lastcmd,
                  dbgcmds, bplog, watch_expressions, fixed_vars >>

\* What execute_line does with the action debug_prompt returns (lines
\* 209-211): the new [_single_step, _step_over_depth].
debug_action(action) ==
  CASE action = "continue" -> [single |-> single_step, depth |-> step_over_depth]
    [] action = "step" -> [single |-> TRUE, depth |-> step_over_depth]
    [] action = "next" -> [single |-> TRUE, depth |-> call_depth]

Resume(action) ==
  /\ Running
  /\ phase = "paused"
  /\ single_step' = debug_action(action).single
  /\ step_over_depth' = debug_action(action).depth
  /\ lastcmd' = action
  /\ phase' = "exec"
  /\ UNCHANGED << prog_vars, breakpoints, dbgcmds, bplog, watch_expressions,
                  shown, fixed_vars >>

\* c / continue, or end of input
DbgContinue == Resume("continue")

\* s / step
DbgStep == Resume("step")

\* n / next
DbgNext == Resume("next")

\* Runs in which the session enters commands that do not resume (breakpoint
\* and watch commands); in the other runs it only resumes.
DbgSessionProgs == {ProgDebug, ProgScope}

\* The breakpoints left by "b arg": int(arg), or (fname, int(ln)) when arg
\* holds a colon (lines 186-188).
debug_break(arg) == breakpoints \cup {arg}

\* b N  and  b source:N
DbgBreak ==
  /\ Running
  /\ phase = "paused"
  /\ dbgcmds < MaxDbgCmds
  /\ prog \in DbgSessionProgs
  /\ \E b \in BpUniverse :
       /\ breakpoints' = debug_break(b)
       /\ bplog' = Append(bplog, [ cmd |-> "b", arg |-> b,
                                   before |-> breakpoints, after |-> debug_break(b) ])
  /\ dbgcmds' = dbgcmds + 1
  /\ UNCHANGED << prog_vars, phase, single_step, step_over_depth, lastcmd,
                  watch_expressions, shown, fixed_vars >>

\* The breakpoints left by "del arg": int(arg) is discarded, and an arg that
\* is no integer (source:N) raises inside the try and removes nothing.
debug_del(arg) ==
  IF arg.src = Bare THEN breakpoints \ {BareBp(arg.line)} ELSE breakpoints

\* del N  and  del source:N
DbgDel ==
  /\ Running
  /\ phase = "paused"
  /\ dbgcmds < MaxDbgCmds
  /\ prog \in DbgSessionProgs
  /\ \E b \in BpUniverse :
       /\ breakpoints' = debug_del(b)
       /\ bplog' = Append(bplog, [ cmd |-> "del", arg |-> b,
                                   before |-> breakpoints, after |-> debug_del(b) ])
  /\ dbgcmds' = dbgcmds + 1
  /\ UNCHANGED << prog_vars, phase, single_step, step_over_depth, lastcmd,
                  watch_expressions, shown, fixed_vars >>

\* watch EXPR (line 195)
DbgWatch ==
  /\ Running
  /\ phase = "paused"
  /\ dbgcmds < MaxDbgCmds
  /\ prog \in DbgSessionProgs
  /\ \E w \in WatchExprs : watch_expressions' = Append(watch_expressions, w)
  /\ dbgcmds' = dbgcmds + 1
  /\ UNCHANGED << prog_vars, phase, breakpoints, single_step, step_over_depth,
                  lastcmd, bplog, shown, fixed_vars >>

\* list.remove(expr): the list without the first occurrence of expr.
remove_first(ws, w) ==
  LET k == CHOOSE k \in DOMAIN ws : ws[k] = w /\ \A j \in 1..(k - 1) : ws[j] # w
  IN SubSeq(ws, 1, k - 1) \o SubSeq(ws, k + 1, Len(ws))

\* unwatch EXPR (line 196): nothing happens when EXPR is no watch.
DbgUnwatch ==
  /\ Running
  /\ phase = "paused"
  /\ dbgcmds < MaxDbgCmds
  /\ prog \in DbgSessionProgs
  /\ \E w \in WatchExprs :
       watch_expressions' =
         IF \E k \in DOMAIN watch_expressions : watch_expressions[k] = w
         THEN remove_first(watch_expressions, w)
         ELSE watch_expressions
  /\ dbgcmds' = dbgcmds + 1
  /\ UNCHANGED << prog_vars, phase, breakpoints, single_step, step_over_depth,
                  lastcmd, bplog, shown, fixed_vars >>

\* bt / stack, vars, help and unknown commands (lines 194, 197-200): they
\* print and ask again.
DbgInspect ==
  /\ Running
  /\ phase = "paused"
  /\ dbgcmds < MaxDbgCmds
  /\ prog \in DbgSessionProgs
  /\ dbgcmds' = dbgcmds + 1
  /\ UNCHANGED << prog_vars, phase, breakpoints, single_step, step_over_depth,
                  lastcmd, bplog, watch_expressions, shown, fixed_vars >>

\* b WORD and b source:WORD where WORD is no integer (lines 187-188): int()
\* raises ValueError outside any try of debug_prompt and of execute_line.
DbgBreakInvalid ==
  /\ Running
  /\ phase = "paused"
  /\ dbgcmds < MaxDbgCmds
  /\ prog \in DbgSessionProgs
  /\ Raise("ValueError")
  /\ dbgcmds' = dbgcmds + 1
  /\ UNCHANGED << funcs, out, trace, steps, diags, breakpoints, single_step,
                  step_over_depth, lastcmd, bplog, watch_expressions, shown,
                  fixed_vars >>

\* ------------------------------------------------------------ specification
Next ==
  \/ LoopEnd
  \/ SkipBlank
  \/ ExecSet
  \/ ExecPrint
  \/ ExecDef
  \/ ExecReturn
  \/ ExecIf
  \/ ExecNoop
  \/ ExecCall
  \/ Unwind
  \/ DebugPause
  \/ DbgContinue
  \/ DbgStep
  \/ DbgNext
  \/ DbgBreak
  \/ DbgDel
  \/ DbgWatch
  \/ DbgUnwatch
  \/ DbgInspect
  \/ DbgBreakInvalid

Spec == Init /\ [][Next]_vars_all

\* ------------------------------------------------ parse_block on its own
\* Lines parse_block is handed: the three block openers, the terminator and
\* a simple statement.
PbAlphabet ==
  { If(Const(1)), While(Const(1)), Def("f", << >>), End, StrySet("x", Const(1)) }

InitPB ==
  /\ pb_lines \in UNION {[1..n -> PbAlphabet] : n \in 0..MaxLen}
  /\ pb_start \in 0..Len(pb_lines)
  /\ pb_res = PbUnset
  /\ prog = << >>
  /\ mode = "file"
  /\ stack = << >>
  /\ vars = EmptyVars
  /\ funcs = NoFuncs
  /\ call_depth = 0
  /\ breakpoints = {}
  /\ single_step = FALSE
  /\ step_over_depth = NoDepth
  /\ phase = "done"
  /\ retval = NoneVal
  /\ exc = "none"
  /\ status = "idle"
  /\ out = << >>
  /\ trace = << >>
  /\ lastcmd = "none"
  /\ steps = 0
  /\ dbgcmds = 0
  /\ diags = << >>
  /\ bplog = << >>
  /\ watch_expressions = << >>
  /\ shown = << >>

interp_vars == << prog_vars, dbg_vars, prog, mode, phase >>

\* parse_block finds an `end` line and returns (block, i).
PbReturn ==
  /\ ~pb_res.done
  /\ parse_block(pb_lines, pb_start).ok
  /\ pb_res' = [ done |-> TRUE, ok |-> TRUE,
                 block |-> parse_block(pb_lines, pb_start).block,
                 end_idx |-> parse_block(pb_lines, pb_start).end_idx ]
  /\ UNCHANGED << interp_vars, pb_lines, pb_start >>

\* parse_block reaches the end of the lines: SyntaxError("Missing 'end'").
PbRaise ==
  /\ ~pb_res.done
  /\ ~parse_block(pb_lines, pb_start).ok
  /\ pb_res' = [PbUnset EXCEPT !.done = TRUE]
  /\ UNCHANGED << interp_vars, pb_lines, pb_start >>

NextPB == PbReturn \/ PbRaise

SpecPB == InitPB /\ [][NextPB]_vars_all

\* ------------------------------------------------------------------ claims
Openers == {"if", "while", "def"}

\* Depth counting as the specification of the block extractor states it: the
\* index of the `end` that brings the counter to 0, or -1 when there is none.
RECURSIVE DepthScan(_, _, _)
DepthScan(lines, i, depth) ==
  IF i >= Len(lines) THEN -1
  ELSE IF lines[i + 1].k = "end"
       THEN IF depth = 1 THEN i ELSE DepthScan(lines, i + 1, depth - 1)
       ELSE IF lines[i + 1].k \in Openers
            THEN DepthScan(lines, i + 1, depth + 1)
            ELSE DepthScan(lines, i + 1, depth)

DepthEnd(lines, start_idx) == DepthScan(lines, start_idx, 1)

\* The return statement at position i of a function body stands inside a
\* while block of that body.
InWhile(lines, i) ==
  \E j \in 1..i : /\ lines[j].k = "while"
                  /\ \A m \in (j + 1)..i : lines[m].k # "end"

FileRunOver(p) == prog = p /\ mode = "file" /\ status # "running"

\* C1: started right after a block opener, parse_block returns the index of
\* the terminator found by depth counting and the lines strictly between, so
\* an inner block's `end` is never returned for the outer block.
C1_DepthMatchedTerminator ==
  ( /\ pb_res.done
    /\ pb_start >= 1
    /\ pb_lines[pb_start].k \in Openers
    /\ DepthEnd(pb_lines, pb_start) >= 0 )
  => /\ pb_res.ok
     /\ pb_res.end_idx = DepthEnd(pb_lines, pb_start)
     /\ pb_res.block = SubSeq(pb_lines, pb_start + 1, DepthEnd(pb_lines, pb_start))

\* C2: whenever a call of a user function is left (its body ran to the end,
\* it returned, or an exception went through it), env["vars"] is the mapping
\* that was active right before the call and _call_depth its value then.
C2_CallRestoresScope ==
  [][ (Len(stack) > 0 /\ Len(stack') < Len(stack) /\ Top.kind = "func")
      => (vars' = Top.g_vars /\ call_depth' = Top.g_depth) ]_vars_all

\* C2 witness: the call f(5) of ProgScope has returned 99, the caller's x is
\* 1 again and neither the parameter a nor the body's y is bound.
C2_Witness ==
  /\ prog = ProgScope
  /\ phase = "resume"
  /\ retval = 99
  /\ vars["x"] = 1
  /\ vars["y"] = Undef
  /\ vars["a"] = Undef
  /\ call_depth = 0

\* C3: a return inside an if block of a function body ends the call with the
\* value of its expression: the run of ProgReturnInIf ends normally with
\* r = 5.
C3_ReturnThroughIf ==
  FileRunOver(ProgReturnInIf) => (status = "done" /\ vars["r"] = 5)

\* C4: a while loop runs its body once per true evaluation of the condition
\* and stops at the first false one: ProgWhile ends with i = 2 and
\* ProgWhileFalse, whose condition is false at once, with i = 5.
C4_WhileIterates ==
  /\ (FileRunOver(ProgWhile) /\ status = "done") => vars["i"] = 2
  /\ (FileRunOver(ProgWhileFalse) /\ status = "done") => vars["i"] = 5

C6_ExactlyOneBranch ==
  (FileRunOver(ProgIfElseFalse) /\ status = "done")
  => (vars["b"] = 2 /\ vars["a"] = Undef /\ vars["ok"] = 1)

\* C7: a def statement only registers the function: no line between the def
\* and its depth-matched end is executed by the file's own loop.
C7_DefOnlyRegisters ==
  \A k \in DOMAIN trace :
    trace[k].kind = "file" =>
      \A d \in 0..(Len(prog) - 1) :
        (prog[d + 1].k = "def" /\ DepthEnd(prog, d + 1) >= 0)
        => ~(d < trace[k].idx /\ trace[k].idx < DepthEnd(prog, d + 1))

\* C8: an unknown identifier is reported as a NameError and the run goes on:
\* the statement after it in ProgNameError is executed and the process does
\* not crash.
C8_NameErrorDoesNotCrash ==
  (prog = ProgNameError /\ status # "running")
  => (status = "done" /\ vars["ok"] = 1 /\ diags = << "NameError" >>)

BpOnLine(n) == BareBp(n) \in breakpoints \/ SrcBp(Path, n) \in breakpoints

\* C9: in run mode, with the breakpoints as registered, execution pauses at a
\* statement exactly when it is file line N of a breakpoint: every pause is
\* at such a line of the file, and every pass through such a line pauses.
C9_PausesOnlyAtFileLine ==
  (~single_step /\ dbgcmds = 0 /\ mode = "file") =>
    /\ phase = "paused" => (Top.kind = "file" /\ BpOnLine(LineNo))
    /\ \A k \in DOMAIN trace :
         (trace[k].kind = "file" /\ BpOnLine(trace[k].line)) => trace[k].paused

\* C10: after `next` at call-depth d, and with no breakpoint on the line,
\* execution does not pause at a call-depth greater than d.
C10_NextStepsOver ==
  ( /\ phase = "paused"
    /\ lastcmd = "next"
    /\ dbgcmds = 0
    /\ ~BareBp(LineNo) \in breakpoints
    /\ ~SrcBp(Top.src, LineNo) \in breakpoints )
  => call_depth <= step_over_depth

BpMatchesHere ==
  BareBp(LineNo) \in breakpoints \/ SrcBp(Top.src, LineNo) \in breakpoints

\* C11: `continue` puts the session in the run state from any state: a pause
\* that follows a `continue` is at a statement whose line matches a
\* registered breakpoint.
C11_ContinueRunsToBreakpoint ==
  (phase = "paused" /\ lastcmd = "continue" /\ dbgcmds = 0) => BpMatchesHere

\* The statement at the cursor calls a user function with a number of
\* arguments that is not its number of parameters, and the arguments
\* themselves evaluate.
ArityMismatchCall ==
  /\ Starting
  /\ CurLine.k \in {"set", "print", "return", "if"}
  /\ IsUserCall(CurLine.e)
  /\ \A k \in DOMAIN CurLine.e.args :
       eval_ast(CurLine.e.args[k], vars, Defined).err = "none"
  /\ Len(CurLine.e.args) # Len(funcs[CurLine.e.id].params)

\* C12: a call of a user function with the wrong number of arguments fails
\* with the arity error (TypeError) before any body statement runs: no call
\* frame is entered and vars, funcs and call-depth stay as they were.
C12_ArityErrorBeforeBody ==
  [][ (ArityMismatchCall /\ trace' # trace)
      => ( /\ exc' = "TypeError"
           /\ phase' = "unwind"
           /\ stack' = stack
           /\ vars' = vars
           /\ funcs' = funcs
           /\ call_depth' = call_depth ) ]_vars_all

\* C12 witness: the call f() of ProgArityFew (f has one parameter) has failed
\* with TypeError; x is still 1, f is still defined, the depth is 0 and no
\* statement of the body of f was started.
C12_Witness ==
  /\ prog = ProgArityFew
  /\ mode = "file"
  /\ status = "crashed"
  /\ exc = "TypeError"
  /\ vars["x"] = 1
  /\ funcs["f"].defd
  /\ call_depth = 0
  /\ \A k \in DOMAIN trace : trace[k].kind # "func"

\* C13: a return at the top level of a file run is discarded and reported:
\* the run of ProgTopReturn does not end at the return, the statement after
\* it is executed and a diagnostic is issued.
C13_TopLevelReturnDiagnosed ==
  FileRunOver(ProgTopReturn)
  => (status = "done" /\ vars["ok"] = 1 /\ Len(diags) > 0)

\* C14: `or` is true as soon as one operand is true, also when another
\* operand cannot be evaluated, and has the standard truth table otherwise:
\* ProgOr ends with a = 0, b = 1, c = 1 and r = (1 or undefined_var) = 1.
C14_OrShortCircuits ==
  (prog = ProgOr /\ status # "running")
  => (vars["a"] = 0 /\ vars["b"] = 1 /\ vars["c"] = 1 /\ vars["r"] = 1)

C16_IfBodyRunsOnce ==
  prog = ProgIfTrue =>
    /\ \A k, j \in DOMAIN trace :
         (trace[k].kind = "if" /\ trace[j].kind = "if" /\ trace[k].idx = trace[j].idx)
         => k = j
    /\ status # "running" =>
         (status = "done" /\ vars["a"] = 1 /\ vars["b"] = 2 /\ vars["ok"] = 1)

\* C17: parse_block fails with the unterminated-block error whenever the
\* lines end before the nesting counter reaches 0, as with two nested openers
\* and a single `end`.
C17_UnterminatedRejected ==
  (pb_res.done /\ DepthEnd(pb_lines, pb_start) < 0) => ~pb_res.ok

\* C18: adding a breakpoint that was not set and then removing the same
\* breakpoint, given as a bare line or as source:line, leaves the breakpoint
\* set as it was before the add.
C18_BreakpointAddRemove ==
  \A k \in DOMAIN bplog :
    ( /\ k + 1 \in DOMAIN bplog
      /\ bplog[k].cmd = "b"
      /\ bplog[k + 1].cmd = "del"
      /\ bplog[k + 1].arg = bplog[k].arg
      /\ bplog[k].arg \notin bplog[k].before
      /\ bplog[k + 1].before = bplog[k].after )
    => bplog[k + 1].after = bplog[k].before

\* C19: when the debugger pauses, it prints one line per registered watch, in
\* registration order, each with the value of that watch, or with the error
\* mark for exactly the watches whose evaluation fails; the pause then stands
\* at its prompt with no exception in flight and the program state as it was.
C19_WatchFailureIsPerWatch ==
  [][ (phase # "paused" /\ phase' = "paused") =>
        /\ Len(shown') = Len(watch_expressions)
        /\ \A k \in DOMAIN watch_expressions :
             LET r == safe_eval(watch_expressions[k], vars, funcs)
             IN /\ shown'[k].w = watch_expressions[k]
                /\ shown'[k].failed = (r.err # "none")
                /\ ~shown'[k].failed => shown'[k].v = r.v
        /\ exc' = "none"
        /\ status' = "running"
        /\ prog_vars' = prog_vars ]_vars_all

\* A pause that shows a failed watch first and the value of a later watch
\* after it.
C19_Witness ==
  /\ phase = "paused"
  /\ exc = "none"
  /\ Len(shown) = 2
  /\ shown[1].failed
  /\ ~shown[2].failed
  /\ shown[2].v = vars[shown[2].w.id]

\* C20: a step taken while the debugger is paused leaves vars, funcs, the call
\* depth and the loops in progress as they were, raises nothing, and either
\* stays in the pause or goes on to execute the paused statement.
C20_DebuggerTransparent ==
  [][ phase = "paused" =>
        /\ vars' = vars
        /\ funcs' = funcs
        /\ call_depth' = call_depth
        /\ stack' = stack
        /\ exc' = "none"
        /\ status' = status
        /\ phase' \in {"paused", "exec"} ]_vars_all

=============================================================================
